---------------------------- MODULE Spec2Model ----------------------------
(***************************************************************************)
(* A model of src/app.py: the point-of-sale backend (customers, inventory, *)
(* bills) as a state machine over the SQLite store and the request         *)
(* handlers of the Flask application.                                      *)
(*                                                                         *)
(* The store is the committed content of the three tables.  Every handler  *)
(* runs on a connection of its own; a connection's uncommitted writes live *)
(* in its transaction (tx) until commit, and the store admits one writing  *)
(* transaction at a time (SQLite's RESERVED lock).                         *)
(***************************************************************************)
EXTENDS Integers, Sequences, FiniteSets, TLC

VARIABLES
    customers,  \* committed CUSTOMER table, in insertion order
    stock,      \* committed INVENTORY.STOCK, by inventory row id
    bills,      \* committed BILLS table, in insertion order
    writer,     \* the connection holding the store's write lock, or NoProc
    tx,         \* per connection: NoTx, or the uncommitted view of the tables
    pc,         \* per connection: the handler's position
    req,        \* per connection: the request being (or last) served
    loc,        \* per connection: the handler's local variables
    resp,       \* per connection: the last response
    sold,       \* history: per inventory row, quantity billed by committed requests
    firstReg    \* history: per phone, the id returned by its first registration

vars == <<customers, stock, bills, writer, tx, pc, req, loc, resp, sold, firstReg>>

-----------------------------------------------------------------------------
(* Bounds of the model.                                                    *)

MaxCustomers == 3   \* registrations are offered while fewer customers exist
MaxBills == 2       \* bill requests are offered while fewer bills exist
MaxItems == 2       \* line items per bill request

Procs == {"a", "b"}
NoProc == "none"

-----------------------------------------------------------------------------
(* Text.  A string is a sequence of one-character strings.                 *)

LowerCase == <<"a","b","c","d","e","f","g","h","i","j","k","l","m",
               "n","o","p","q","r","s","t","u","v","w","x","y","z">>
UpperCase == <<"A","B","C","D","E","F","G","H","I","J","K","L","M",
               "N","O","P","Q","R","S","T","U","V","W","X","Y","Z">>
DigitChars == <<"0","1","2","3","4","5","6","7","8","9">>

UpperChar(c) ==
    IF \E i \in 1..Len(LowerCase) : LowerCase[i] = c
    THEN UpperCase[CHOOSE i \in 1..Len(LowerCase) : LowerCase[i] = c]
    ELSE c

\* str.upper() / SQL UPPER(): every letter to its capital, the rest kept.
Upper(s) == [i \in 1..Len(s) |-> UpperChar(s[i])]

\* SQL TRIM(): the spaces at both ends removed.
RECURSIVE TrimLeft(_)
TrimLeft(s) == IF s # <<>> /\ Head(s) = " " THEN TrimLeft(Tail(s)) ELSE s
RECURSIVE TrimRight(_)
TrimRight(s) ==
    IF s # <<>> /\ s[Len(s)] = " " THEN TrimRight(SubSeq(s, 1, Len(s) - 1)) ELSE s
Trim(s) == TrimRight(TrimLeft(s))

IsDigit(c) == \E i \in 1..Len(DigitChars) : DigitChars[i] = c
DigitVal(c) == (CHOOSE i \in 1..Len(DigitChars) : DigitChars[i] = c) - 1

RECURSIVE DigitsValue(_)
DigitsValue(s) ==
    IF s = <<>> THEN 0
    ELSE 10 * DigitsValue(SubSeq(s, 1, Len(s) - 1)) + DigitVal(s[Len(s)])

-----------------------------------------------------------------------------
(* JSON values of a request body: a string, an integer, a float (kept in   *)
(* tenths; "inf" is the float the parser yields for a literal such as      *)
(* 1e999), or null (also: the key is absent).                              *)

JStr(s)   == [t |-> "str",   s |-> s,    n |-> 0]
JInt(n)   == [t |-> "int",   s |-> <<>>, n |-> n]
JFloat(n) == [t |-> "float", s |-> <<>>, n |-> n]
JInf      == [t |-> "inf",   s |-> <<>>, n |-> 0]
JNull     == [t |-> "null",  s |-> <<>>, n |-> 0]

\* Python truthiness, as used by `not x` and all([...]).
Truthy(j) ==
    CASE j.t = "str"   -> j.s # <<>>
      [] j.t = "int"   -> j.n # 0
      [] j.t = "float" -> j.n # 0
      [] j.t = "inf"   -> TRUE
      [] OTHER         -> FALSE

Ok(v)     == [ok |-> TRUE,  v |-> v, exc |-> "none"]
Raise(e)  == [ok |-> FALSE, v |-> 0, exc |-> e]

\* An optionally signed run of digits, as int() accepts after stripping blanks.
IntLiteral(s) ==
    LET body == IF s # <<>> /\ s[1] \in {"+", "-"} THEN Tail(s) ELSE s
    IN  body # <<>> /\ \A i \in 1..Len(body) : IsDigit(body[i])
IntLiteralValue(s) ==
    IF s[1] = "-" THEN 0 - DigitsValue(Tail(s))
    ELSE IF s[1] = "+" THEN DigitsValue(Tail(s))
    ELSE DigitsValue(s)

\* Python int(x): an int as is, a float truncated towards zero, a string
\* parsed as a decimal literal; ValueError, TypeError or OverflowError otherwise.
PyInt(j) ==
    CASE j.t = "int"   -> Ok(j.n)
      [] j.t = "float" -> Ok(IF j.n >= 0 THEN j.n \div 10 ELSE 0 - ((0 - j.n) \div 10))
      [] j.t = "inf"   -> Raise("OverflowError")
      [] j.t = "str"   -> IF IntLiteral(Trim(j.s))
                          THEN Ok(IntLiteralValue(Trim(j.s)))
                          ELSE Raise("ValueError")
      [] OTHER         -> Raise("TypeError")

\* Python float(x) for the amounts (a float is kept in tenths): a number as
\* is, the string "nan" (any case) as the NaN float, a decimal integer literal
\* as its value; ValueError or TypeError otherwise.
NaN == [f |-> "nan", v |-> 0]
Inf == [f |-> "inf", v |-> 0]
Num(n) == [f |-> "num", v |-> n]
PyFloat(j) ==
    CASE j.t = "int"   -> Ok(Num(10 * j.n))
      [] j.t = "float" -> Ok(Num(j.n))
      [] j.t = "inf"   -> Ok(Inf)
      [] j.t = "str"   -> IF Upper(Trim(j.s)) = <<"N","A","N">> THEN Ok(NaN)
                          ELSE IF IntLiteral(Trim(j.s))
                               THEN Ok(Num(10 * IntLiteralValue(Trim(j.s))))
                               ELSE Raise("ValueError")
      [] OTHER         -> Raise("TypeError")

-----------------------------------------------------------------------------
(* The store.                                                              *)

\* The INVENTORY rows.  This service never inserts or edits them apart from
\* STOCK; rows 1 and 2 differ as (BRAND, PRODUCT) pairs, as the table's UNIQUE
\* constraint demands, and share one trimmed, upper-cased display name.
InventoryRows == <<
    [brand |-> <<"T","a","t","a">>, product |-> <<"S","a","l","t">>,
     purchase |-> 10, wholesale |-> 14, retail |-> 16, hotel |-> 15],
    [brand |-> <<" ","T","A","T","A">>, product |-> <<"s","a","l","t"," ">>,
     purchase |-> 11, wholesale |-> 12, retail |-> 13, hotel |-> 14],
    [brand |-> <<"A","m","u","l">>, product |-> <<"G","h","e","e">>,
     purchase |-> 20, wholesale |-> 22, retail |-> 25, hotel |-> 24] >>
RowIds == 1..Len(InventoryRows)
InitStock == <<3, 5, 1>>

\* CHECK(CUSTOMER_TYPE IN (...)) and CHECK(PAYMENT_METHOD IN (...)).
WHOLESALE == <<"W","H","O","L","E","S","A","L","E">>
RETAIL    == <<"R","E","T","A","I","L">>
HOTELLINE == <<"H","O","T","E","L","-","L","I","N","E">>
CustomerTypes == {WHOLESALE, RETAIL, HOTELLINE}
CASH   == <<"C","A","S","H">>
CARD   == <<"C","A","R","D">>
CREDIT == <<"C","R","E","D","I","T">>
ONLINE == <<"O","N","L","I","N","E">>
UPI    == <<"U","P","I">>
PaymentMethods == {ONLINE, CASH, CREDIT, CARD}

NoTx == [open |-> FALSE, customers |-> <<>>, stock |-> <<>>, bills |-> <<>>]
Committed == [open |-> TRUE, customers |-> customers, stock |-> stock, bills |-> bills]

\* What connection p's statements read: its own transaction once it has one,
\* the committed tables before.
View(p) == IF tx[p].open THEN tx[p] ELSE Committed

\* Mutant of Locked: connections write without taking the store's write lock.
NeverLocked(p) == FALSE

\* The first write statement of a connection opens its transaction and takes
\* the store's write lock; it cannot proceed while another connection holds it.
Locked(p) == writer \notin {NoProc, p}

\* AUTOINCREMENT: one more than the largest id the table has held; rows are
\* never deleted and a rolled-back insert leaves the sequence as it was.
NextId(table) == Len(table) + 1

\* conn.rollback() of the except blocks, and the implicit rollback of
\* conn.close() in the finally blocks: the transaction is dropped, the lock
\* released, the committed tables untouched.
Rollback(p) ==
    /\ tx' = [tx EXCEPT ![p] = NoTx]
    /\ writer' = IF writer = p THEN NoProc ELSE writer
    /\ UNCHANGED <<customers, stock, bills>>

NoLoc == [ctype |-> <<>>, i |-> 0, profit |-> 0, count |-> 0, qty |-> 0, name |-> <<>>]
NoReq == [kind |-> "none"]

Response(status, body, id, rows) ==
    [status |-> status, body |-> body, id |-> id, rows |-> rows]
NoResp == Response(0, "none", 0, <<>>)

\* A return statement: the response is fixed; the finally block is still to run.
Return(p, r) ==
    /\ resp' = [resp EXCEPT ![p] = r]
    /\ pc' = [pc EXCEPT ![p] = "done"]
    /\ loc' = [loc EXCEPT ![p] = NoLoc]

\* A return inside the try block: nothing is committed or rolled back here.
StoreUnchanged == UNCHANGED <<customers, stock, bills, writer, tx>>

\* Mutant of InternalError: the except block answers 500 without rolling back.
InternalErrorNoRollback(p, exc) ==
    /\ StoreUnchanged
    /\ Return(p, Response(500, exc, 0, <<>>))

\* The except block of a handler: rollback, then the generic 500.
InternalError(p, exc) ==
    /\ Rollback(p)
    /\ Return(p, Response(500, exc, 0, <<>>))

Idle(p) == pc[p] = "idle"

\* The finally block of every handler: conn.close() drops whatever the
\* connection has not committed; the response goes out and the request ends.
close(p) ==
    /\ pc[p] = "done"
    /\ Rollback(p)
    /\ pc' = [pc EXCEPT ![p] = "idle"]
    /\ req' = [req EXCEPT ![p] = NoReq]
    /\ resp' = [resp EXCEPT ![p] = NoResp]
    /\ UNCHANGED <<loc, sold, firstReg>>

-----------------------------------------------------------------------------
(* POST /api/customers                                                     *)

RegisterRequest(name, phone, type) ==
    [kind |-> "register", name |-> name, phone |-> phone, type |-> type]

\* Lines 99-106: the body is read and the three fields must be present.
manage_customers_post(p, Names, Phones, Types) ==
    /\ Idle(p)
    /\ Len(customers) < MaxCustomers
    /\ \E name \in Names, phone \in Phones, type \in Types :
          /\ req' = [req EXCEPT ![p] = RegisterRequest(name, phone, type)]
          /\ IF ~(Truthy(name) /\ Truthy(phone) /\ Truthy(type))
             THEN Return(p, Response(400, "Missing data", 0, <<>>))
             ELSE /\ pc' = [pc EXCEPT ![p] = "reg_select"]
                  /\ UNCHANGED <<resp, loc>>
    /\ UNCHANGED <<customers, stock, bills, writer, tx, sold, firstReg>>

\* Mutant of CustomerByPhone: the lookup compares the wrong column.
CustomerByName(table, phone) ==
    {i \in 1..Len(table) : table[i].name = phone}

\* SELECT CUSTOMER_ID FROM CUSTOMER WHERE MOBILE_NO = ?
CustomerByPhone(table, phone) ==
    {i \in 1..Len(table) : table[i].phone = phone}

\* Lines 108-119: the existence check, then the class check of a new customer.
manage_customers_select(p) ==
    /\ pc[p] = "reg_select"
    /\ LET r == req[p]
           found == CustomerByPhone(View(p).customers, r.phone.s)
       IN  IF found # {}
           THEN /\ Return(p, Response(201, "Existing customer ID retrieved.",
                            View(p).customers[CHOOSE i \in found : TRUE].id, <<>>))
                /\ StoreUnchanged
           ELSE IF r.type.t # "str"
           THEN InternalError(p, "AttributeError")
           ELSE IF Upper(r.type.s) \notin CustomerTypes
           THEN /\ Return(p, Response(400, "Invalid customer_type", 0, <<>>))
                /\ StoreUnchanged
           ELSE /\ pc' = [pc EXCEPT ![p] = "reg_insert"]
                /\ UNCHANGED <<customers, stock, bills, writer, tx, loc, resp>>
    /\ UNCHANGED <<req, sold, firstReg>>

\* The CUSTOMER row an INSERT adds to a table.
InsertCustomer(table, name, phone, type) ==
    Append(table, [id |-> NextId(table), name |-> name, phone |-> phone, type |-> type])

\* Mutant of UniqueMobileNo: MOBILE_NO is declared without UNIQUE.
MobileNoUnconstrained(table, phone) == TRUE

\* MOBILE_NO TEXT NOT NULL UNIQUE: whether a row with this phone may be added.
UniqueMobileNo(table, phone) == \A i \in 1..Len(table) : table[i].phone # phone

\* Lines 121-126: the INSERT, the connection's first write.  It waits for the
\* write lock, or gives up with "database is locked"; it fails on MOBILE_NO's
\* UNIQUE constraint.
manage_customers_insert(p) ==
    /\ pc[p] = "reg_insert"
    /\ LET r == req[p]
       IN  IF Locked(p)
           THEN InternalError(p, "OperationalError")
           ELSE IF ~UniqueMobileNo(View(p).customers, r.phone.s)
           THEN InternalError(p, "IntegrityError")
           ELSE /\ tx' = [tx EXCEPT ![p] =
                         [View(p) EXCEPT !.open = TRUE,
                            !.customers = InsertCustomer(@, r.name.s, r.phone.s, Upper(r.type.s))]]
                /\ writer' = p
                /\ loc' = [loc EXCEPT ![p].i = NextId(View(p).customers)]
                /\ pc' = [pc EXCEPT ![p] = "reg_commit"]
                /\ UNCHANGED <<customers, stock, bills, resp>>
    /\ UNCHANGED <<req, sold, firstReg>>

\* conn.commit(): the transaction's tables become the committed ones.
Commit(p) ==
    /\ customers' = tx[p].customers
    /\ stock' = tx[p].stock
    /\ bills' = tx[p].bills
    /\ tx' = [tx EXCEPT ![p] = NoTx]
    /\ writer' = NoProc

\* Lines 127-129: commit, and the 201 with cursor.lastrowid.
manage_customers_commit(p) ==
    /\ pc[p] = "reg_commit"
    /\ Commit(p)
    /\ Return(p, Response(201, "New customer created.", loc[p].i, <<>>))
    /\ firstReg' = [firstReg EXCEPT ![req[p].phone.s] =
                        IF @ = 0 THEN loc[p].i ELSE @]
    /\ UNCHANGED <<req, sold>>

-----------------------------------------------------------------------------
(* POST /api/process-bill                                                  *)

LineItem(name, quantity) == [name |-> name, quantity |-> quantity]

BillRequest(cid, products, pay, subtotal, tax, total) ==
    [kind |-> "bill", customer_id |-> cid, products |-> products,
     payment_method |-> pay, subtotal |-> subtotal, tax |-> tax, total |-> total]

\* dict.get(key, default) where JNull stands for an absent key.
GetOr(j, default) == IF j.t = "null" THEN default ELSE j

\* Lines 151-170, before the connection is opened.  A payment method that is
\* not a string has no upper(): the AttributeError is raised outside the
\* handler's try block and the framework answers 500.
process_bill(p, Cids, Lists, Pays, Subtotals, Taxes, Totals) ==
    /\ Idle(p)
    /\ Len(bills) < MaxBills
    /\ \E cid \in Cids, products \in Lists, pay \in Pays,
          subtotal \in Subtotals, tax \in Taxes, total \in Totals :
          LET payment == GetOr(pay, JStr(<<>>))
          IN
          /\ req' = [req EXCEPT ![p] =
                        BillRequest(cid, products, pay, subtotal, tax, total)]
          /\ IF payment.t # "str"
             THEN Return(p, Response(500, "AttributeError", 0, <<>>))
             ELSE IF ~(PyFloat(GetOr(subtotal, JInt(0))).ok
                       /\ PyFloat(GetOr(tax, JInt(0))).ok
                       /\ PyFloat(GetOr(total, JInt(0))).ok)
             THEN Return(p, Response(400, "Invalid amount format", 0, <<>>))
             ELSE IF ~(cid # 0 /\ products # <<>> /\ Upper(payment.s) # <<>>)
             THEN Return(p, Response(400, "Missing critical bill data", 0, <<>>))
             ELSE /\ pc' = [pc EXCEPT ![p] = "bill_customer"]
                  /\ UNCHANGED <<resp, loc>>
    /\ UNCHANGED <<customers, stock, bills, writer, tx, sold, firstReg>>

\* SELECT CUSTOMER_TYPE FROM CUSTOMER WHERE CUSTOMER_ID = ?
CustomerById(table, cid) == {i \in 1..Len(table) : table[i].id = cid}

\* Lines 172-183: the customer's stored class, or 404.
process_bill_customer(p) ==
    /\ pc[p] = "bill_customer"
    /\ LET found == CustomerById(View(p).customers, req[p].customer_id)
       IN  IF found = {}
           THEN /\ Return(p, Response(404, "Customer not found.", 0, <<>>))
                /\ StoreUnchanged
           ELSE /\ loc' = [loc EXCEPT ![p] =
                      [NoLoc EXCEPT !.ctype = View(p).customers[CHOOSE i \in found : TRUE].type,
                                    !.i = 1]]
                /\ pc' = [pc EXCEPT ![p] = "bill_item"]
                /\ UNCHANGED <<customers, stock, bills, writer, tx, resp>>
    /\ UNCHANGED <<req, sold, firstReg>>

\* Mutant of SellingPrice: the retail rate whatever the class.
SellingPriceRetail(row, ctype) == row.retail

\* price_column_map: the rate column of a stored customer class.
SellingPrice(row, ctype) ==
    CASE ctype = WHOLESALE -> row.wholesale
      [] ctype = RETAIL    -> row.retail
      [] ctype = HOTELLINE -> row.hotel

\* (TRIM(UPPER(BRAND)) || ' ' || TRIM(UPPER(PRODUCT)))
DisplayKey(row) == Trim(Upper(row.brand)) \o <<" ">> \o Trim(Upper(row.product))

\* WHERE (TRIM(UPPER(BRAND)) || ' ' || TRIM(UPPER(PRODUCT))) = ?
MatchingRows(key) == {r \in RowIds : DisplayKey(InventoryRows[r]) = key}

\* The loop goes to its next line item, or past the last one to line 211.
LoopNext(p) ==
    IF loc[p].i < Len(req[p].products) THEN "bill_item" ELSE "bill_insert"

\* `continue`: the line item is skipped.
Continue(p) ==
    /\ loc' = [loc EXCEPT ![p].i = @ + 1]
    /\ pc' = [pc EXCEPT ![p] = LoopNext(p)]
    /\ UNCHANGED <<customers, stock, bills, writer, tx, resp>>

\* Lines 186-206 for line item loc.i: the quantity is parsed, an invalid line
\* skipped, the rates of one matching row fetched (fetchone() of a SELECT
\* without ORDER BY: any of the matching rows) and the profit accrued.
process_bill_item(p) ==
    /\ pc[p] = "bill_item"
    /\ LET item == req[p].products[loc[p].i]
           quantity == PyInt(item.quantity)
       IN  IF ~quantity.ok /\ quantity.exc \in {"ValueError", "TypeError"}
           THEN Continue(p)
           ELSE IF ~quantity.ok
           THEN InternalError(p, quantity.exc)
           ELSE IF ~Truthy(item.name) \/ quantity.v <= 0
           THEN Continue(p)
           ELSE IF item.name.t # "str"
           THEN InternalError(p, "AttributeError")
           ELSE LET key == Upper(item.name.s)
                    rows == MatchingRows(key)
                IN  /\ \/ /\ rows = {}
                          /\ loc' = [loc EXCEPT ![p].count = @ + 1,
                                                ![p].qty = quantity.v,
                                                ![p].name = key]
                       \/ \E r \in rows :
                            loc' = [loc EXCEPT
                               ![p].count = @ + 1,
                               ![p].qty = quantity.v,
                               ![p].name = key,
                               ![p].profit = @ +
                                  (SellingPrice(InventoryRows[r], loc[p].ctype)
                                     - InventoryRows[r].purchase) * quantity.v]
                    /\ pc' = [pc EXCEPT ![p] = "bill_update"]
                    /\ UNCHANGED <<customers, stock, bills, writer, tx, resp>>
    /\ UNCHANGED <<req, sold, firstReg>>

\* Mutant of UpdateStock: the decrement is applied only to sufficient stock.
UpdateStockIfSufficient(table, key, quantity) ==
    [r \in RowIds |-> IF r \in MatchingRows(key) /\ table[r] >= quantity
                      THEN table[r] - quantity ELSE table[r]]

\* UPDATE INVENTORY SET STOCK = STOCK - ? WHERE <display key> = ?
UpdateStock(table, key, quantity) ==
    [r \in RowIds |-> IF r \in MatchingRows(key) THEN table[r] - quantity ELSE table[r]]

\* Lines 208-209: the UPDATE, the connection's first write.  It waits for the
\* write lock, or gives up with "database is locked".
process_bill_update(p) ==
    /\ pc[p] = "bill_update"
    /\ IF Locked(p)
       THEN InternalError(p, "OperationalError")
       ELSE /\ tx' = [tx EXCEPT ![p] =
                       [View(p) EXCEPT !.open = TRUE,
                           !.stock = UpdateStock(@, loc[p].name, loc[p].qty)]]
            /\ writer' = p
            /\ loc' = [loc EXCEPT ![p].i = @ + 1]
            /\ pc' = [pc EXCEPT ![p] = LoopNext(p)]
            /\ UNCHANGED <<customers, stock, bills, resp>>
    /\ UNCHANGED <<req, sold, firstReg>>

\* Mutant of PaymentMap: an unknown method is passed through.
PaymentMapPassThrough(method) ==
    CASE method = CASH   -> CASH
      [] method = CARD   -> CARD
      [] method = CREDIT -> CREDIT
      [] method = UPI    -> ONLINE
      [] OTHER           -> method

\* payment_map.get(payment_method, 'CASH')
PaymentMap(method) ==
    CASE method = CASH   -> CASH
      [] method = CARD   -> CARD
      [] method = CREDIT -> CREDIT
      [] method = UPI    -> ONLINE
      [] OTHER           -> CASH

\* The BILLS row of the INSERT; a NaN float is bound as NULL.
BillRow(id, r, count, profit) ==
    [bill_id |-> id, customer_id |-> r.customer_id, total_items |-> count,
     bill_amount |-> PyFloat(GetOr(r.subtotal, JInt(0))).v,
     tax_amount |-> PyFloat(GetOr(r.tax, JInt(0))).v,
     total_amount |-> PyFloat(GetOr(r.total, JInt(0))).v,
     profit_earned |-> profit,
     payment_method |-> PaymentMap(Upper(GetOr(r.payment_method, JStr(<<>>)).s)),
     status |-> "SUCCESSFUL"]

\* BILL_AMOUNT REAL NOT NULL and CHECK(PAYMENT_METHOD IN (...)).
BillConstraints(row) ==
    /\ row.bill_amount.f # "nan"
    /\ row.payment_method \in PaymentMethods

\* History: the quantity the valid line items of a request bill against row r.
ValidLine(item) ==
    /\ PyInt(item.quantity).ok
    /\ PyInt(item.quantity).v > 0
    /\ Truthy(item.name)
RECURSIVE BilledQuantity(_, _)
BilledQuantity(products, r) ==
    IF products = <<>> THEN 0
    ELSE BilledQuantity(Tail(products), r)
         + (IF /\ ValidLine(Head(products))
               /\ Head(products).name.t = "str"
               /\ r \in MatchingRows(Upper(Head(products).name.s))
            THEN PyInt(Head(products).quantity).v ELSE 0)

\* Lines 211-225: no valid line is a 400; otherwise the bill is inserted in the
\* transaction the UPDATEs opened, and committed.
process_bill_insert(p) ==
    /\ pc[p] = "bill_insert"
    /\ LET row == BillRow(NextId(View(p).bills), req[p], loc[p].count, loc[p].profit)
       IN  IF loc[p].count = 0
           THEN /\ Return(p, Response(400, "No valid products to bill.", 0, <<>>))
                /\ StoreUnchanged
                /\ UNCHANGED sold
           ELSE IF ~BillConstraints(row)
           THEN /\ InternalError(p, "IntegrityError")
                /\ UNCHANGED sold
           ELSE /\ customers' = tx[p].customers
                /\ stock' = tx[p].stock
                /\ bills' = Append(tx[p].bills, row)
                /\ tx' = [tx EXCEPT ![p] = NoTx]
                /\ writer' = NoProc
                /\ Return(p, Response(201, "Bill generated successfully!", row.bill_id, <<>>))
                /\ sold' = [r \in RowIds |-> sold[r] + BilledQuantity(req[p].products, r)]
    /\ UNCHANGED <<req, firstReg>>

-----------------------------------------------------------------------------
(* GET /api/bills                                                          *)

\* FROM BILLS b JOIN CUSTOMER c ON b.CUSTOMER_ID = c.CUSTOMER_ID
JoinCustomer(bs, cs) ==
    {[bill_id |-> bs[i].bill_id, customer_name |-> cs[j].name,
      profit_earned |-> bs[i].profit_earned,
      payment_method |-> bs[i].payment_method] :
        <<i, j>> \in {x \in (1..Len(bs)) \X (1..Len(cs)) :
                        bs[x[1]].customer_id = cs[x[2]].id}}

\* Mutant of OrderByBillIdDesc: ORDER BY b.BILL_ID, oldest first.
RECURSIVE OrderByBillIdAsc(_)
OrderByBillIdAsc(rows) ==
    IF rows = {} THEN <<>>
    ELSE LET low == CHOOSE r \in rows : \A o \in rows : r.bill_id <= o.bill_id
         IN  <<low>> \o OrderByBillIdAsc(rows \ {low})

\* ORDER BY b.BILL_ID DESC
RECURSIVE OrderByBillIdDesc(_)
OrderByBillIdDesc(rows) ==
    IF rows = {} THEN <<>>
    ELSE LET top == CHOOSE r \in rows : \A o \in rows : o.bill_id <= r.bill_id
         IN  <<top>> \o OrderByBillIdDesc(rows \ {top})

\* Lines 235-268: one SELECT on the committed tables.
get_bills(p) ==
    /\ Idle(p)
    /\ req' = [req EXCEPT ![p] = [kind |-> "bills"]]
    /\ Return(p, Response(200, "bills", 0,
                          OrderByBillIdDesc(JoinCustomer(bills, customers))))
    /\ UNCHANGED <<customers, stock, bills, writer, tx, sold, firstReg>>

-----------------------------------------------------------------------------
(* GET /api/products                                                       *)

\* LIKE '%term%' on a string without wildcards of its own.
Contains(hay, needle) ==
    \E k \in 0..(Len(hay) - Len(needle)) :
        SubSeq(hay, k + 1, k + Len(needle)) = needle

\* Mutant of PriceColumn: the map has no entry for HOTEL-LINE.
PriceColumnNoHotel(ctype) ==
    CASE ctype = WHOLESALE -> "WHOLESALE_RATE"
      [] ctype = RETAIL    -> "RETAIL_RATE"
      [] OTHER             -> "None"

\* price_column_map.get(customer_type): the column name, or None.
PriceColumn(ctype) ==
    CASE ctype = WHOLESALE -> "WHOLESALE_RATE"
      [] ctype = RETAIL    -> "RETAIL_RATE"
      [] ctype = HOTELLINE -> "HOTEL_RATE"
      [] OTHER             -> "None"

\* The rows of the suggestion list, in table order.
RECURSIVE Suggestions(_, _, _)
Suggestions(r, term, ctype) ==
    IF r > Len(InventoryRows) THEN <<>>
    ELSE LET row == InventoryRows[r]
         IN (IF Contains(Upper(row.brand) \o <<" ">> \o Upper(row.product), Upper(term))
             THEN <<[name |-> Trim(row.brand \o <<" ">> \o row.product),
                     price |-> SellingPrice(row, ctype)]>>
             ELSE <<>>) \o Suggestions(r + 1, term, ctype)

\* Lines 289-310.
get_product_suggestions(p, Terms, Types) ==
    /\ Idle(p)
    /\ \E term \in Terms, type \in Types :
         LET customer_type == Upper(type)
         IN
         /\ req' = [req EXCEPT ![p] =
                      [kind |-> "products", term |-> term, customer_type |-> type]]
         /\ Return(p,
              IF term = <<>> \/ customer_type = <<>>
              THEN Response(200, "products", 0, <<>>)
              ELSE IF PriceColumn(customer_type) = "None"
              THEN Response(400, "Invalid customer type", 0, <<>>)
              ELSE Response(200, "products", 0, Suggestions(1, term, customer_type)))
    /\ UNCHANGED <<customers, stock, bills, writer, tx, sold, firstReg>>

-----------------------------------------------------------------------------
(* Request values offered to the handlers.                                 *)

AllPhones == {<<"1">>, <<"2">>}
Asha == <<"A","s","h","a">>

RegNames  == {JStr(Asha), JNull}
RegPhones == {JStr(ph) : ph \in AllPhones} \cup {JNull}
RegTypes  == {JStr(<<"r","e","t","a","i","l">>), JStr(<<"W","h","o","l","e","s","a","l","e">>),
              JStr(HOTELLINE), JStr(<<"g","o","l","d">>), JInt(5), JNull}

TataSalt == <<"T","a","t","a"," ","S","a","l","t">>

\* Line items that are combined in every order: a valid line, a line with an
\* empty name, a line whose quantity is the float inf.
CoreItems == {
    LineItem(JStr(TataSalt), JInt(1)),
    LineItem(JStr(<<>>), JInt(1)),
    LineItem(JStr(TataSalt), JInf) }

\* Further products lists: other spellings and quantity forms, a name that
\* matches no row, a name that is not a string.
OtherLists == {
    <<LineItem(JStr(<<"t","a","t","a"," ","s","a","l","t">>), JStr(<<" ","2">>))>>,
    <<LineItem(JStr(<<"A","M","U","L"," ","G","H","E","E">>), JFloat(25))>>,
    <<LineItem(JStr(<<"N","o","p","e">>), JInt(1))>>,
    <<LineItem(JStr(TataSalt), JInt(0))>>,
    <<LineItem(JStr(TataSalt), JStr(<<"2",".","5">>))>>,
    <<LineItem(JStr(TataSalt), JNull)>>,
    <<LineItem(JInt(7), JInt(1))>>,
    <<LineItem(JStr(TataSalt), JInt(1)), LineItem(JInt(7), JInt(1))>>,
    <<LineItem(JStr(<<"A","M","U","L"," ","G","H","E","E">>), JFloat(25)),
      LineItem(JStr(<<"t","a","t","a"," ","s","a","l","t">>), JStr(<<" ","2">>))>>,
    <<LineItem(JStr(<<"N","o","p","e">>), JInt(1)), LineItem(JStr(TataSalt), JInt(-1))>> }

RECURSIVE SeqsUpTo(_, _)
SeqsUpTo(S, n) ==
    IF n = 0 THEN {<<>>}
    ELSE LET shorter == SeqsUpTo(S, n - 1)
         IN  shorter \cup {Append(q, x) : q \in shorter, x \in S}

ProductLists == SeqsUpTo(CoreItems, MaxItems) \cup OtherLists

Amount == JInt(100)
BillSubtotals == {Amount, JStr(<<"n","a","n">>), JStr(<<"a","b","c">>)}
Cash == JStr(<<"c","a","s","h">>)

PayMethods == {Cash, JStr(<<"C","a","r","d">>), JStr(CREDIT), JStr(<<"u","p","i">>),
               JStr(UPI), JStr(<<"o","n","l","i","n","e">>), JStr(<<"B","o","g","u","s">>),
               JStr(<<>>), JInt(5), JNull}

SearchTerms == {<<>>, <<"s","a","l","t">>, <<"T","A","T","A">>, <<"a"," ","s">>, <<"z","z">>}
SearchTypes == {<<>>, <<"r","e","t","a","i","l">>, <<"R","e","t","a","i","l">>, RETAIL,
                <<"w","h","o","l","e","s","a","l","e">>, WHOLESALE,
                <<"H","o","t","e","l","-","L","i","n","e">>, HOTELLINE,
                <<"h","o","t","e","l">>, <<"H","O","T","E","L"," ","L","I","N","E">>,
                <<"g","o","l","d">>, <<" ">>}

ThreeCustomers == <<
    [id |-> 1, name |-> Asha, phone |-> <<"1">>, type |-> RETAIL],
    [id |-> 2, name |-> Asha, phone |-> <<"2">>, type |-> WHOLESALE],
    [id |-> 3, name |-> Asha, phone |-> <<"3">>, type |-> HOTELLINE] >>

-----------------------------------------------------------------------------
(* Specifications.                                                         *)

InitWith(cs) ==
    /\ customers = cs
    /\ stock = [r \in RowIds |-> InitStock[r]]
    /\ bills = <<>>
    /\ writer = NoProc
    /\ tx = [p \in Procs |-> NoTx]
    /\ pc = [p \in Procs |-> "idle"]
    /\ req = [p \in Procs |-> NoReq]
    /\ loc = [p \in Procs |-> NoLoc]
    /\ resp = [p \in Procs |-> NoResp]
    /\ sold = [r \in RowIds |-> 0]
    /\ firstReg = [ph \in AllPhones |-> 0]

\* Registration requests served one after another, from the empty store.
InitReg == InitWith(<<>>)
NextReg ==
    \/ manage_customers_post("a", RegNames, RegPhones, RegTypes)
    \/ manage_customers_select("a")
    \/ manage_customers_insert("a")
    \/ manage_customers_commit("a")
    \/ close("a")
SpecReg == InitReg /\ [][NextReg]_vars

\* Bill requests served one after another, for a customer of any one class
\* (customer_id 0 stands for an absent id, 2 for an unknown one).
InitBill ==
    \E t \in CustomerTypes :
        InitWith(<<[id |-> 1, name |-> Asha, phone |-> <<"1">>, type |-> t]>>)
NextBill ==
    \/ process_bill("a", 0..2, ProductLists, {Cash}, BillSubtotals, {Amount}, {Amount})
    \/ process_bill_customer("a")
    \/ process_bill_item("a")
    \/ process_bill_update("a")
    \/ process_bill_insert("a")
    \/ close("a")
SpecBill == InitBill /\ [][NextBill]_vars

\* Bill requests that differ in the submitted payment method and amounts.
NextPay ==
    \/ process_bill("a", {1}, {<<LineItem(JStr(TataSalt), JInt(1))>>}, PayMethods,
                    {Amount}, {Amount, JNull, JStr(<<"a","b","c">>)}, {Amount})
    \/ process_bill_customer("a")
    \/ process_bill_item("a")
    \/ process_bill_update("a")
    \/ process_bill_insert("a")
    \/ close("a")
SpecPay == InitWith(ThreeCustomers) /\ [][NextPay]_vars

\* Product-suggestion lookups.
NextProducts ==
    \E p \in Procs :
        \/ get_product_suggestions(p, SearchTerms, SearchTypes)
        \/ close(p)
SpecProducts == InitWith(ThreeCustomers) /\ [][NextProducts]_vars

\* Two connections served concurrently: registrations of one new phone, bills
\* of one customer against the same inventory rows, and the bill history.
InitConcurrent == InitWith(SubSeq(ThreeCustomers, 1, 1))
ConcurrentLists ==
    {<<LineItem(JStr(TataSalt), JInt(1))>>,
     <<LineItem(JStr(TataSalt), JInt(2))>>,
     <<LineItem(JStr(TataSalt), JInt(1)), LineItem(JStr(TataSalt), JInf)>>}
Next ==
    \E p \in Procs :
        \/ manage_customers_post(p, {JStr(Asha)}, {JStr(<<"2">>)},
                                 {JStr(<<"r","e","t","a","i","l">>), JStr(HOTELLINE)})
        \/ manage_customers_select(p)
        \/ manage_customers_insert(p)
        \/ manage_customers_commit(p)
        \/ process_bill(p, {1}, ConcurrentLists, {Cash}, {Amount}, {Amount}, {Amount})
        \/ process_bill_customer(p)
        \/ process_bill_item(p)
        \/ process_bill_update(p)
        \/ process_bill_insert(p)
        \/ get_bills(p)
        \/ close(p)
Spec == InitConcurrent /\ [][Next]_vars

-----------------------------------------------------------------------------
(* Properties.                                                             *)

Done(p) == pc[p] = "done"
RegPcs == {"reg_select", "reg_insert", "reg_commit"}
BillPcs == {"bill_customer", "bill_item", "bill_update", "bill_insert"}

UniquePhones ==
    \A i, j \in 1..Len(customers) :
        customers[i].phone = customers[j].phone => i = j

IsPrefix(s, t) == Len(s) <= Len(t) /\ SubSeq(t, 1, Len(s)) = s

\* C1: registrations served one after another never leave two customer
\* records with one phone, and a registration of a phone that is already
\* registered inserts nothing and answers 201 with the id that the first
\* registration of that phone returned.
C1_RegistrationIdempotent ==
    [][ /\ UniquePhones'
        /\ \A p \in Procs :
             ( /\ req[p].kind = "register"
               /\ pc[p] \in RegPcs
               /\ firstReg[req[p].phone.s] # 0 )
             => /\ customers' = customers
                /\ pc'[p] = "done"
                /\ resp'[p].status = 201
                /\ resp'[p].id = firstReg[req[p].phone.s]
                /\ customers[resp'[p].id].phone = req[p].phone.s ]_vars

\* A second registration of the first phone, with another class, after a
\* second phone was registered: it got the first record's id.
C1_Witness ==
    /\ Done("a")
    /\ req["a"].kind = "register"
    /\ resp["a"].body = "Existing customer ID retrieved."
    /\ resp["a"].id = 1
    /\ Len(customers) = 2
    /\ req["a"].type.t = "str"
    /\ Upper(req["a"].type.s) # customers[1].type

AllInvalid(products) == \A i \in 1..Len(products) : ~ValidLine(products[i])

\* C2: a bill request for an existing customer whose line items are all invalid
\* (empty name, or a quantity that does not parse as a positive integer) ends
\* with 400 "No valid products to bill.", adds no bill and changes no stock.
C2_AllInvalidRejected ==
    [][ \A p \in Procs :
          ( /\ req[p].kind = "bill"
            /\ pc[p] \in BillPcs
            /\ CustomerById(customers, req[p].customer_id) # {}
            /\ AllInvalid(req[p].products) )
          => /\ stock' = stock
             /\ bills' = bills
             /\ pc'[p] = "done" =>
                  /\ resp'[p].status = 400
                  /\ resp'[p].body = "No valid products to bill." ]_vars

\* The rate the claim names for a customer class.
ClassRate(row, ctype) ==
    IF ctype = WHOLESALE THEN row.wholesale
    ELSE IF ctype = RETAIL THEN row.retail
    ELSE row.hotel

\* The profits a line item may contribute: (s - p) * q for a row its name
\* matches when the line is valid, zero otherwise.
LineProfits(item, ctype) ==
    IF /\ ValidLine(item)
       /\ item.name.t = "str"
       /\ MatchingRows(Upper(item.name.s)) # {}
    THEN {(ClassRate(InventoryRows[r], ctype) - InventoryRows[r].purchase)
             * PyInt(item.quantity).v : r \in MatchingRows(Upper(item.name.s))}
    ELSE {0}

RECURSIVE ExpectedProfits(_, _)
ExpectedProfits(products, ctype) ==
    IF products = <<>> THEN {0}
    ELSE {x + y : x \in LineProfits(Head(products), ctype),
                  y \in ExpectedProfits(Tail(products), ctype)}

BilledCustomer(p) ==
    customers[CHOOSE i \in 1..Len(customers) : customers[i].id = req[p].customer_id]

Billed(p) == Done(p) /\ req[p].kind = "bill" /\ resp[p].status = 201

\* C3: the profit stored on the bill of a successful request is the sum over
\* its line items of (s - p) * q for the valid lines that match an inventory
\* row (s the row's rate for the customer's stored class, p its purchase
\* rate, q the parsed quantity) and of zero for the other lines.
C3_ProfitIsSumOfMargins ==
    \A p \in Procs :
        Billed(p) =>
            /\ resp[p].id \in 1..Len(bills)
            /\ bills[resp[p].id].bill_id = resp[p].id
            /\ bills[resp[p].id].profit_earned
                   \in ExpectedProfits(req[p].products, BilledCustomer(p).type)

\* A Hotel-Line customer's bill with a matching valid line and an invalid one.
C3_Witness ==
    \E p \in Procs :
        /\ Billed(p)
        /\ BilledCustomer(p).type = HOTELLINE
        /\ \E i, j \in 1..Len(req[p].products) :
              /\ LineProfits(req[p].products[i], HOTELLINE) # {0}
              /\ ~ValidLine(req[p].products[j])
        /\ bills[resp[p].id].profit_earned > 0

\* C4: whatever requests were served one after another, each row's stock is
\* its initial stock less the quantities that the valid line items of the
\* requests that committed a bill have billed against it.
C4_StockIsInitialLessBilled ==
    \A r \in RowIds : stock[r] = InitStock[r] - sold[r]

\* Two bills were committed, one row is overdrawn, another row was billed too.
C4_Witness ==
    /\ Len(bills) = 2
    /\ \E r \in RowIds : stock[r] < 0
    /\ \E r \in RowIds : stock[r] >= 0 /\ sold[r] > 0
    /\ \E r \in RowIds : sold[r] = 0

\* C5: a bill request that fails after its transaction has made stock
\* decrements ends with a 500, its transaction rolled back and nothing of it
\* committed; and committed stock changes only together with one added bill.
C5_AllOrNothing ==
    [][ /\ \A p \in Procs :
             ( /\ pc[p] \in BillPcs
               /\ tx[p].open
               /\ pc'[p] = "done"
               /\ resp'[p].status # 201 )
             => /\ resp'[p].status = 500
                /\ ~tx'[p].open
                /\ writer' # p
                /\ stock' = stock
                /\ bills' = bills
        /\ stock' # stock =>
             /\ Len(bills') = Len(bills) + 1
             /\ IsPrefix(bills, bills') ]_vars

\* A request that decremented stock for its first line and failed on the
\* second: the committed stock is what it was.
C5_Witness ==
    \E p \in Procs :
        /\ Done(p)
        /\ req[p].kind = "bill"
        /\ resp[p].status = 500
        /\ resp[p].body = "OverflowError"
        /\ Len(req[p].products) = 2
        /\ \E r \in RowIds : BilledQuantity(<<req[p].products[1]>>, r) > 0
        /\ bills = <<>>
        /\ stock = [r \in RowIds |-> InitStock[r]]

\* The table of the claim: CASH, CARD and CREDIT as they are, UPI as ONLINE,
\* anything else as CASH.
ClaimedMethod(m) ==
    IF m \in {CASH, CARD, CREDIT} THEN m
    ELSE IF m = UPI THEN ONLINE
    ELSE CASH

\* C6: every bill row holds one of ONLINE, CASH, CREDIT, CARD; a request with
\* a non-empty payment text is not failed for it, and the row it persists
\* holds the table's value for the upper-cased text.
C6_PaymentNormalised ==
    /\ \A i \in 1..Len(bills) : bills[i].payment_method \in PaymentMethods
    /\ \A p \in Procs :
         ( /\ Done(p)
           /\ req[p].kind = "bill"
           /\ req[p].payment_method.t = "str"
           /\ req[p].payment_method.s # <<>> )
         => /\ resp[p].status # 500
            /\ resp[p].status = 201 =>
                 bills[resp[p].id].payment_method
                     = ClaimedMethod(Upper(req[p].payment_method.s))

\* "upi" was stored as ONLINE, then "Bogus" as CASH.
C6_Witness ==
    /\ Len(bills) = 2
    /\ bills[1].payment_method = ONLINE
    /\ bills[2].payment_method = CASH
    /\ Billed("a")
    /\ req["a"].payment_method = JStr(<<"B","o","g","u","s">>)

Looked(p) == Done(p) /\ req[p].kind = "products" /\ req[p].term # <<>>

\* C7 as claimed: with a search term, a class that is not one of the three
\* (in any case) is answered 400, and a list is returned only for the three.
C7_InvalidClassRejected ==
    \A p \in Procs :
        Looked(p) =>
            /\ Upper(req[p].customer_type) \notin CustomerTypes
                  => resp[p].status = 400
            /\ resp[p].status = 200
                  => Upper(req[p].customer_type) \in CustomerTypes

\* C7 as amended: a non-empty class that is not one of the three is answered
\* 400; an empty (or absent) class is answered with the empty list; one of
\* the three classes is answered with a list, and only they get a row.
C7_NonEmptyInvalidClassRejected ==
    \A p \in Procs :
        Looked(p) =>
            /\ req[p].customer_type = <<>>
                  => resp[p].status = 200 /\ resp[p].rows = <<>>
            /\ ( /\ req[p].customer_type # <<>>
                 /\ Upper(req[p].customer_type) \notin CustomerTypes )
                  => resp[p].status = 400
            /\ Upper(req[p].customer_type) \in CustomerTypes
                  => resp[p].status = 200
            /\ resp[p].rows # <<>>
                  => Upper(req[p].customer_type) \in CustomerTypes

\* One lookup with an unknown class was refused, one with a mixed-case class
\* returned rows, one without a class returned the empty list.
C7_Witness ==
    /\ Looked("a")
    /\ Looked("b")
    /\ req["a"].customer_type = <<>>
    /\ resp["a"].status = 200
    /\ req["b"].customer_type = <<"g","o","l","d">>
    /\ resp["b"].status = 400

\* C8: the bill history lists every committed bill once, a bill created
\* later before every bill created earlier.
C8_HistoryNewestFirst ==
    [][ \A p \in Procs :
          (Idle(p) /\ pc'[p] = "done" /\ req'[p].kind = "bills")
          => /\ Len(resp'[p].rows) = Len(bills)
             /\ \A i, j \in 1..Len(bills) :
                   bills[i].bill_id = bills[j].bill_id => i = j
             /\ \A i \in 1..Len(bills) :
                   resp'[p].rows[Len(bills) + 1 - i].bill_id = bills[i].bill_id ]_vars

\* A history of two different bills was returned.
C8_Witness ==
    \E p \in Procs :
        /\ Done(p)
        /\ req[p].kind = "bills"
        /\ Len(resp[p].rows) = 2
        /\ resp[p].rows[1].profit_earned # resp[p].rows[2].profit_earned

\* C9: with registrations of one phone racing, the committed table never
\* holds two rows with one phone; a registration whose INSERT does not go
\* through ends with a 500, rolled back, having added nothing; and committed
\* customer rows are never changed or removed.
C9_RegistrationRace ==
    [][ /\ UniquePhones'
        /\ IsPrefix(customers, customers')
        /\ \A p \in Procs :
             (pc[p] = "reg_insert" /\ pc'[p] \notin {"reg_insert", "reg_commit"})
             => /\ pc'[p] = "done"
                /\ resp'[p].status = 500
                /\ ~tx'[p].open
                /\ writer' # p
                /\ customers' = customers ]_vars

\* Both connections registered the same new phone: one created the record,
\* the other failed on the UNIQUE constraint.
C9_Witness ==
    \E p, q \in Procs :
        /\ Done(p) /\ Done(q)
        /\ req[p].kind = "register" /\ req[q].kind = "register"
        /\ req[p].phone = req[q].phone
        /\ resp[p].body = "New customer created."
        /\ resp[q].body = "IntegrityError"
        /\ Len(customers) = 2

\* C10: of two bill requests against the same rows no decrement is lost: when
\* both have committed, each row's stock is its initial stock less both
\* billed quantities; when one has, less that one's.
C10_NoLostDecrement ==
    \A p, q \in Procs :
        /\ (p # q /\ Billed(p) /\ Billed(q) /\ Len(bills) = 2)
              => \A r \in RowIds :
                    stock[r] = InitStock[r] - BilledQuantity(req[p].products, r)
                                            - BilledQuantity(req[q].products, r)
        /\ (Billed(p) /\ Len(bills) = 1)
              => \A r \in RowIds :
                    stock[r] = InitStock[r] - BilledQuantity(req[p].products, r)

\* Both requests committed, with different quantities of the same product.
C10_Witness ==
    /\ Billed("a") /\ Billed("b")
    /\ Len(bills) = 2
    /\ req["a"].products # req["b"].products
    /\ stock[1] = InitStock[1] - 3

=============================================================================
